---------------------------- MODULE Spec2Model ----------------------------
(***************************************************************************)
(* A model of the proof-of-work ledger of src/src/main.rs: Transaction,    *)
(* Block (calculate_hash, mine_block) and Blockchain (new,                 *)
(* mine_pending_transactions, add_transaction, get_balance,                *)
(* is_chain_valid).                                                        *)
(*                                                                         *)
(* Text is modelled as TLA+ strings, so that format!("{}{}{}{}{}") is the  *)
(* concatenation it is in the code.  SHA-256 is modelled as a collision-   *)
(* free function of the hashed text: Sha256Hex(data) stands for a string   *)
(* of HashLen hex characters whose first LeadZeros(data) characters are    *)
(* "0", whose next character is not "0", and whose remaining characters    *)
(* are written symbolically as the hashed text itself between two marks.   *)
(* f64 is modelled as exact integers together with the non-finite values   *)
(* (NaN, +inf, -inf); rounding of finite values is not modelled.           *)
(***************************************************************************)
EXTENDS Integers, Sequences, FiniteSets, TLC

VARIABLES
    chain,                  \* Blockchain.chain: Vec<Block>
    pending_transactions,   \* Blockchain.pending_transactions: Vec<Transaction>
    difficulty,             \* Blockchain.difficulty: usize
    mining_reward,          \* Blockchain.mining_reward: f64
    pc,                     \* position of the single caller thread
    block,                  \* the local `block` of mine_pending_transactions
    ret                     \* the operation that returned last, with its result

vars == <<chain, pending_transactions, difficulty, mining_reward, pc, block, ret>>

-----------------------------------------------------------------------------
(* Bounds of the model and the input domains.                              *)

MaxChain == 3       \* blocks in the chain, genesis included
MaxTx == 2          \* add_transaction calls over a run

HashLen == 64       \* hex characters of a SHA-256 digest

Sentinel == "System"
Users == {"a", "b"}
Addresses == Users \cup {Sentinel}
Miners == {"a", Sentinel}
Times == {17}
Difficulties == {0, 2, HashLen + 1}

-----------------------------------------------------------------------------
(* f64: exact integers and the non-finite values.                          *)

Num(v) == [cls |-> "num", v |-> v]
NaN == [cls |-> "nan", v |-> 0]
PosInf == [cls |-> "inf", v |-> 1]

IsFinite(x) == x.cls = "num"

FNeg(x) == IF x.cls = "nan" THEN NaN ELSE [cls |-> x.cls, v |-> 0 - x.v]

FAdd(x, y) ==
    IF x.cls = "nan" \/ y.cls = "nan" THEN NaN
    ELSE IF x.cls = "inf" /\ y.cls = "inf" THEN (IF x.v = y.v THEN x ELSE NaN)
    ELSE IF x.cls = "inf" THEN x
    ELSE IF y.cls = "inf" THEN y
    ELSE Num(x.v + y.v)

FSub(x, y) == FAdd(x, FNeg(y))

Rewards == {Num(0), Num(3)}

\* The (sender, recipient, amount) triples a caller submits.
TxInputs ==
    { <<"a", "b", Num(2)>>, <<"a", "a", Num(2)>>, <<"b", Sentinel, Num(5)>>,
      <<"a", "a", NaN>> }

-----------------------------------------------------------------------------
(* Transaction                                                             *)

\* The record with sender and recipient in each other's place.
TransactionNewSwapped(sender, recipient, amount, now) ==
    [sender |-> recipient, recipient |-> sender, amount |-> amount,
     timestamp |-> now]

TransactionNew(sender, recipient, amount, now) ==
    [sender |-> sender, recipient |-> recipient, amount |-> amount,
     timestamp |-> now]

-----------------------------------------------------------------------------
(* Text: serde_json::to_string and the hashed text of a block.             *)

RECURSIVE Repeat(_, _)
Repeat(s, n) == IF n = 0 THEN "" ELSE s \o Repeat(s, n - 1)

\* serde_json writes a finite f64 with ryu ("2.0") and a non-finite one as null.
JsonF64(x) == IF IsFinite(x) THEN ToString(x.v) \o ".0" ELSE "null"

\* The model's addresses hold no character that JSON escapes.
JsonString(s) == "\"" \o s \o "\""

JsonTransaction(t) ==
    "{\"sender\":" \o JsonString(t.sender)
        \o ",\"recipient\":" \o JsonString(t.recipient)
        \o ",\"amount\":" \o JsonF64(t.amount)
        \o ",\"timestamp\":" \o ToString(t.timestamp) \o "}"

RECURSIVE JsonItems(_)
JsonItems(ts) ==
    IF ts = <<>> THEN ""
    ELSE IF Len(ts) = 1 THEN JsonTransaction(ts[1])
    ELSE JsonTransaction(ts[1]) \o "," \o JsonItems(Tail(ts))

JsonTransactions(ts) == "[" \o JsonItems(ts) \o "]"

\* format!("{}{}{}{}{}", index, timestamp, json, previous_hash, nonce)
HashData(b) ==
    ToString(b.index) \o ToString(b.timestamp) \o JsonTransactions(b.transactions)
        \o b.previous_hash \o ToString(b.nonce)

-----------------------------------------------------------------------------
(* SHA-256 rendered as lowercase hex.                                      *)

CharCode(c) ==
    CASE c = "0" -> 0 [] c = "1" -> 1 [] c = "2" -> 2 [] c = "3" -> 3
      [] c = "4" -> 4 [] c = "5" -> 5 [] c = "6" -> 6 [] c = "7" -> 7
      [] c = "8" -> 8 [] c = "9" -> 9 [] OTHER -> 11

\* The sum of the character codes of s[lo..hi].
RECURSIVE CodeSum(_, _, _)
CodeSum(s, lo, hi) ==
    IF lo > hi THEN 0 ELSE CharCode(SubSeq(s, hi, hi)) + CodeSum(s, lo, hi - 1)

\* A checksum of the text: its length and its last characters (the nonce is
\* written last, so that each nonce of the search gives another checksum).
Checksum(data) ==
    LET n == Len(data)
    IN  (n + CodeSum(data, IF n > 8 THEN n - 7 ELSE 1, n)) % 16

\* The number of leading "0" characters of the digest of `data`: a fixed
\* function of the text, as it is for SHA-256.
LeadZeros(data) ==
    LET c == Checksum(data)
    IN  IF c = 0 THEN 4 ELSE IF c % 8 = 0 THEN 3 ELSE IF c % 4 = 0 THEN 2
        ELSE IF c % 2 = 0 THEN 1 ELSE 0

Sha256Hex(data) == Repeat("0", LeadZeros(data)) \o "#" \o data \o "#"

-----------------------------------------------------------------------------
(* Block                                                                   *)

CalculateHash(b) == Sha256Hex(HashData(b))

\* The constructor that leaves the hash empty.
BlockNewNoHash(index, transactions, previous_hash, now) ==
    [index |-> index, timestamp |-> now, transactions |-> transactions,
     previous_hash |-> previous_hash, hash |-> "", nonce |-> 0]

\* The constructor that starts the search at nonce 1.
BlockNewNonceOne(index, transactions, previous_hash, now) ==
    LET b == [index |-> index, timestamp |-> now, transactions |-> transactions,
              previous_hash |-> previous_hash, hash |-> "", nonce |-> 1]
    IN  [b EXCEPT !.hash = CalculateHash(b)]

BlockNew(index, transactions, previous_hash, now) ==
    LET b == [index |-> index, timestamp |-> now, transactions |-> transactions,
              previous_hash |-> previous_hash, hash |-> "", nonce |-> 0]
    IN  [b EXCEPT !.hash = CalculateHash(b)]

\* The loop condition of mine_block: &self.hash[..difficulty] != target.
\* Every hash the ledger stores stands for HashLen characters, so the slice
\* is in range exactly when difficulty <= HashLen.
SliceInRange(d) == d <= HashLen

\* The loop condition looking at one character too few.
NotYetMinedShort(b, d) == d > 0 /\ SubSeq(b.hash, 1, d - 1) # Repeat("0", d - 1)

\* The loop written do-while: its body runs once before the first test.
NotYetMinedDoWhile(b, d) == b.nonce = 0 \/ SubSeq(b.hash, 1, d) # Repeat("0", d)

NotYetMined(b, d) == SubSeq(b.hash, 1, d) # Repeat("0", d)

\* The loop body with its two statements exchanged.
MineBlockBodyHashFirst(b) ==
    [b EXCEPT !.hash = CalculateHash(b), !.nonce = b.nonce + 1]

\* One iteration of the loop body.
MineBlockBody(b) ==
    LET c == [b EXCEPT !.nonce = b.nonce + 1]
    IN  [c EXCEPT !.hash = CalculateHash(c)]

-----------------------------------------------------------------------------
(* Blockchain                                                              *)

\* A genesis block whose previous hash is one character short.
GenesisBlockShort(now) == BlockNew(0, <<>>, Repeat("0", HashLen - 1), now)

GenesisBlock(now) == BlockNew(0, <<>>, Repeat("0", HashLen), now)

\* The first block taken for the last one.
GetFirstBlock(c) == c[1]

GetLatestBlock(c) == c[Len(c)]

Returned(op) == [op |-> op, address |-> "", balance |-> Num(0), valid |-> TRUE]

\* Blockchain::new(difficulty, mining_reward)
Init ==
    /\ difficulty \in Difficulties
    /\ mining_reward \in Rewards
    /\ \E now \in Times : chain = <<GenesisBlock(now)>>
    /\ pending_transactions = <<>>
    /\ pc = "idle"
    /\ block = <<>>
    /\ ret = Returned("new")

-----------------------------------------------------------------------------
(* The read-only passes over the chain.                                    *)

\* The two tests of the loop body chained by `else if`.
RECURSIVE BalanceElseIf(_, _, _)
BalanceElseIf(ts, address, balance) ==
    IF ts = <<>> THEN balance
    ELSE LET t == Head(ts)
             b1 == IF t.sender = address THEN FSub(balance, t.amount)
                   ELSE IF t.recipient = address THEN FAdd(balance, t.amount)
                   ELSE balance
         IN  BalanceElseIf(Tail(ts), address, b1)

\* The sender credited instead of debited.
RECURSIVE BalanceSenderCredited(_, _, _)
BalanceSenderCredited(ts, address, balance) ==
    IF ts = <<>> THEN balance
    ELSE LET t == Head(ts)
             b1 == IF t.sender = address THEN FAdd(balance, t.amount) ELSE balance
             b2 == IF t.recipient = address THEN FAdd(b1, t.amount) ELSE b1
         IN  BalanceSenderCredited(Tail(ts), address, b2)

RECURSIVE BalanceOverTransactions(_, _, _)
BalanceOverTransactions(ts, address, balance) ==
    IF ts = <<>> THEN balance
    ELSE LET t == Head(ts)
             b1 == IF t.sender = address THEN FSub(balance, t.amount) ELSE balance
             b2 == IF t.recipient = address THEN FAdd(b1, t.amount) ELSE b1
         IN  BalanceOverTransactions(Tail(ts), address, b2)

RECURSIVE BalanceOverBlocks(_, _, _)
BalanceOverBlocks(c, address, balance) ==
    IF c = <<>> THEN balance
    ELSE BalanceOverBlocks(Tail(c), address,
             BalanceOverTransactions(Head(c).transactions, address, balance))

GetBalance(c, address) == BalanceOverBlocks(c, address, Num(0))

\* The loop without its second test.
RECURSIVE ValidFromHashOnly(_, _)
ValidFromHashOnly(c, i) ==
    IF i > Len(c) THEN TRUE
    ELSE IF c[i].hash # CalculateHash(c[i]) THEN FALSE
    ELSE ValidFromHashOnly(c, i + 1)

\* for i in 1..self.chain.len(), 0-based; c[i] below is the code's chain[i-1].
RECURSIVE ValidFrom(_, _)
ValidFrom(c, i) ==
    IF i > Len(c) THEN TRUE
    ELSE IF c[i].hash # CalculateHash(c[i]) THEN FALSE
    ELSE IF c[i].previous_hash # c[i - 1].hash THEN FALSE
    ELSE ValidFrom(c, i + 1)

\* The check that also asks every block after genesis for the prefix.
IsChainValidWithPrefix(c) ==
    /\ ValidFrom(c, 2)
    /\ \A i \in 2..Len(c) : SubSeq(c[i].hash, 1, difficulty) = Repeat("0", difficulty)

IsChainValid(c) == ValidFrom(c, 2)

-----------------------------------------------------------------------------
(* The operations.                                                         *)

RECURSIVE SubmittedIn(_)
SubmittedIn(c) ==
    IF Len(c) <= 1 THEN 0
    ELSE (Len(c[Len(c)].transactions) - 1) + SubmittedIn(SubSeq(c, 1, Len(c) - 1))

\* The records submitted so far by add_transaction (rewards are not submitted).
Submitted == Len(pending_transactions) + SubmittedIn(chain)

\* The record put in front of the pending list.
AddTransactionPushFront(sender, recipient, amount) ==
    /\ pc = "idle"
    /\ Submitted < MaxTx
    /\ \E now \in Times :
          pending_transactions' =
              <<TransactionNew(sender, recipient, amount, now)>>
                  \o pending_transactions
    /\ ret' = Returned("add_transaction")
    /\ UNCHANGED <<chain, difficulty, mining_reward, pc, block>>

AddTransaction(sender, recipient, amount) ==
    /\ pc = "idle"
    /\ Submitted < MaxTx
    /\ \E now \in Times :
          pending_transactions' =
              Append(pending_transactions,
                     TransactionNew(sender, recipient, amount, now))
    /\ ret' = Returned("add_transaction")
    /\ UNCHANGED <<chain, difficulty, mining_reward, pc, block>>

\* mine_pending_transactions up to the call of mine_block: the reward is
\* pushed to the pending buffer and the candidate block is built from a clone.
\* The block built from the pending list as it was before the reward record.
MinePendingTransactionsCloneFirst(miner_address) ==
    /\ pc = "idle"
    /\ Len(chain) < MaxChain
    /\ \E now1, now2 \in Times :
          LET reward_tx ==
                  TransactionNew(Sentinel, miner_address, mining_reward, now1)
          IN  /\ pending_transactions' = Append(pending_transactions, reward_tx)
              /\ block' = <<BlockNew(Len(chain), pending_transactions,
                                     GetLatestBlock(chain).hash, now2)>>
    /\ pc' = "mine_block"
    /\ UNCHANGED <<chain, difficulty, mining_reward, ret>>

MinePendingTransactions(miner_address) ==
    /\ pc = "idle"
    /\ Len(chain) < MaxChain
    /\ \E now1 \in Times, now2 \in Times :
          LET reward_tx ==
                  TransactionNew(Sentinel, miner_address, mining_reward, now1)
              pending == Append(pending_transactions, reward_tx)
          IN  /\ pending_transactions' = pending
              /\ block' = <<BlockNew(Len(chain), pending,
                                     GetLatestBlock(chain).hash, now2)>>
    /\ pc' = "mine_block"
    /\ UNCHANGED <<chain, difficulty, mining_reward, ret>>

\* The slice of the loop condition is out of range: the thread panics.
MineBlockPanic ==
    /\ pc = "mine_block"
    /\ ~SliceInRange(difficulty)
    /\ pc' = "panicked"
    /\ UNCHANGED <<chain, pending_transactions, difficulty, mining_reward, block, ret>>

\* The loop condition holds: one more nonce.
MineBlockLoop ==
    /\ pc = "mine_block"
    /\ SliceInRange(difficulty)
    /\ NotYetMined(block[1], difficulty)
    /\ block' = <<MineBlockBody(block[1])>>
    /\ UNCHANGED <<chain, pending_transactions, difficulty, mining_reward, pc, ret>>

\* The return that leaves the pending buffer as it is.
MineBlockReturnKeepsPending ==
    /\ pc = "mine_block"
    /\ SliceInRange(difficulty)
    /\ ~NotYetMined(block[1], difficulty)
    /\ chain' = Append(chain, block[1])
    /\ block' = <<>>
    /\ pc' = "idle"
    /\ ret' = Returned("mine_pending_transactions")
    /\ UNCHANGED <<pending_transactions, difficulty, mining_reward>>

\* The return that puts the new block in front of the chain.
MineBlockReturnPushFront ==
    /\ pc = "mine_block"
    /\ SliceInRange(difficulty)
    /\ ~NotYetMined(block[1], difficulty)
    /\ chain' = <<block[1]>> \o chain
    /\ pending_transactions' = <<>>
    /\ block' = <<>>
    /\ pc' = "idle"
    /\ ret' = Returned("mine_pending_transactions")
    /\ UNCHANGED <<difficulty, mining_reward>>

\* The loop condition fails: mine_block returns, and mine_pending_transactions
\* pushes the block and replaces the pending buffer by an empty one.
MineBlockReturn ==
    /\ pc = "mine_block"
    /\ SliceInRange(difficulty)
    /\ ~NotYetMined(block[1], difficulty)
    /\ chain' = Append(chain, block[1])
    /\ pending_transactions' = <<>>
    /\ block' = <<>>
    /\ pc' = "idle"
    /\ ret' = Returned("mine_pending_transactions")
    /\ UNCHANGED <<difficulty, mining_reward>>

CallGetBalance(address) ==
    /\ pc = "idle"
    /\ ret' = [op |-> "get_balance", address |-> address,
               balance |-> GetBalance(chain, address), valid |-> TRUE]
    /\ UNCHANGED <<chain, pending_transactions, difficulty, mining_reward, pc, block>>

\* A ledger at rest: no call is under way and none has panicked.
AtRest == pc \notin {"mine_block", "panicked"}

CallIsChainValid ==
    /\ AtRest
    /\ ret' = [op |-> "is_chain_valid", address |-> "", balance |-> Num(0),
               valid |-> IsChainValid(chain)]
    /\ UNCHANGED <<chain, pending_transactions, difficulty, mining_reward, pc, block>>

Submit == \E tx \in TxInputs : AddTransaction(tx[1], tx[2], tx[3])

Mine == \E miner_address \in Miners : MinePendingTransactions(miner_address)

Balance == \E address \in Addresses : CallGetBalance(address)

Next ==
    \/ Submit
    \/ Mine
    \/ MineBlockPanic
    \/ MineBlockLoop
    \/ MineBlockReturn
    \/ Balance
    \/ CallIsChainValid

Spec == Init /\ [][Next]_vars

-----------------------------------------------------------------------------
(* Properties of the ledger under the public operations.                   *)

Mined == 2..Len(chain)      \* the positions of the blocks after genesis

AllZero(s, n) == \A k \in 1..n : SubSeq(s, k, k) = "0"

\* C1 (linkage): in every reachable state, every block after genesis stores
\* as previous_hash the hash stored in the block before it.
C1_Linkage == \A i \in Mined : chain[i].previous_hash = chain[i - 1].hash

C1_Witness == pc = "idle" /\ Len(chain) = 3 /\ chain[3].nonce > 0

\* C2 (chain growth): a call of mine_pending_transactions leaves the chain
\* alone until it returns, and its return makes the chain exactly one block
\* longer and leaves the pending buffer empty, whoever the miner is.
C2_ChainGrowth ==
    [][ /\ (pc = "idle" /\ pc' = "mine_block") => chain' = chain
        /\ pc = "mine_block" =>
              IF pc' = "idle"
              THEN Len(chain') = Len(chain) + 1 /\ pending_transactions' = <<>>
              ELSE chain' = chain ]_vars

C2_Witness ==
    /\ ret.op = "mine_pending_transactions"
    /\ Len(chain) = 3
    /\ pending_transactions = <<>>
    /\ Len(chain[3].transactions) = 3

\* C3 (sealed prefix): the first `difficulty` characters of the hash of every
\* block after genesis are "0".
C3_SealedPrefix == \A i \in Mined : AllZero(chain[i].hash, difficulty)

C3_Witness ==
    /\ difficulty = 2
    /\ Len(chain) = 3
    /\ chain[2].nonce > 0
    /\ Len(chain[3].transactions) > 1

\* C4 (validity): is_chain_valid() is true of the chain of every reachable
\* state, and every call of it returned true.
C4_AlwaysValid ==
    /\ IsChainValid(chain)
    /\ ret.op = "is_chain_valid" => ret.valid

C4_Witness ==
    /\ ret.op = "is_chain_valid"
    /\ ret.valid
    /\ Len(chain) = 3
    /\ chain[3].nonce > 0
    /\ pending_transactions # <<>>

-----------------------------------------------------------------------------
(* Balances.                                                               *)

RECURSIVE AllTransactions(_)
AllTransactions(c) ==
    IF c = <<>> THEN <<>> ELSE Head(c).transactions \o AllTransactions(Tail(c))

RECURSIVE FSum(_)
FSum(xs) == IF xs = <<>> THEN Num(0) ELSE FAdd(FSum(SubSeq(xs, 1, Len(xs) - 1)), xs[Len(xs)])

AmountsWhere(ts, Keep(_)) ==
    LET idx == {k \in 1..Len(ts) : Keep(ts[k])}
        F[k \in 0..Len(ts)] ==
            IF k = 0 THEN <<>>
            ELSE IF k \in idx THEN Append(F[k - 1], ts[k].amount) ELSE F[k - 1]
    IN  F[Len(ts)]

\* The reference balance: what the address received less what it sent, over
\* the records of the chain.
RefBalance(c, address) ==
    LET ts == AllTransactions(c)
        IsRecipient(t) == t.recipient = address
        IsSender(t) == t.sender = address
    IN  FSub(FSum(AmountsWhere(ts, IsRecipient)), FSum(AmountsWhere(ts, IsSender)))

RECURSIVE UserSum(_, _)
UserSum(c, S) ==
    IF S = {} THEN 0
    ELSE LET a == CHOOSE x \in S : TRUE
         IN  GetBalance(c, a).v + UserSum(c, S \ {a})

\* The records of block i that add_transaction submitted: all but the last.
SubmittedOf(i) == SubSeq(chain[i].transactions, 1, Len(chain[i].transactions) - 1)

RewardOf(i) == chain[i].transactions[Len(chain[i].transactions)]

NoSentinelSubmitted ==
    \A i \in Mined : \A k \in 1..Len(SubmittedOf(i)) :
        SubmittedOf(i)[k].sender # Sentinel /\ SubmittedOf(i)[k].recipient # Sentinel

IntegerAmounts ==
    \A i \in Mined : \A k \in 1..Len(chain[i].transactions) :
        IsFinite(chain[i].transactions[k].amount)

NoSentinelMiner == \A i \in Mined : RewardOf(i).recipient # Sentinel

\* C7 as stated (balance conservation): when no submitted record names the
\* sentinel and the amounts are integers, the balances of the user addresses
\* add up to mining_reward times the number of blocks after genesis.
C7_ConservationAsStated ==
    (NoSentinelSubmitted /\ IntegerAmounts) =>
        UserSum(chain, Users) = mining_reward.v * (Len(chain) - 1)

\* C7 amended: the same, when moreover no block was mined for the sentinel as
\* miner address.
C7_Conservation ==
    (NoSentinelSubmitted /\ IntegerAmounts /\ NoSentinelMiner) =>
        UserSum(chain, Users) = mining_reward.v * (Len(chain) - 1)

C7_Witness ==
    /\ NoSentinelSubmitted /\ IntegerAmounts /\ NoSentinelMiner
    /\ Len(chain) = 3
    /\ mining_reward = Num(3)
    /\ Len(chain[2].transactions) = 2
    /\ Len(chain[3].transactions) = 2
    /\ chain[2].transactions[1].sender = chain[2].transactions[1].recipient
    /\ UserSum(chain, Users) = 6

-----------------------------------------------------------------------------
(* Construction and growth.                                                *)

\* C9 (genesis): right after Blockchain::new, for every difficulty and reward,
\* the chain is one block with index 0, no records, a previous_hash of HashLen
\* "0" characters and nonce 0, and the pending buffer is empty.
C9_Genesis ==
    (pc = "idle" /\ ret.op = "new") =>
        /\ Len(chain) = 1
        /\ pending_transactions = <<>>
        /\ chain[1].index = 0
        /\ chain[1].transactions = <<>>
        /\ Len(chain[1].previous_hash) = HashLen
        /\ AllZero(chain[1].previous_hash, HashLen)
        /\ chain[1].nonce = 0

\* A fresh ledger whose genesis hash does not meet the difficulty.
C9_Witness ==
    /\ pc = "idle"
    /\ ret.op = "new"
    /\ difficulty = 2
    /\ mining_reward = Num(3)
    /\ ~AllZero(chain[1].hash, difficulty)

\* C10 (append-only): the chain is never empty, the block at position i has
\* index i, and every step keeps the chain it found as a prefix of the chain it
\* leaves, block for block.
C10_AppendOnly ==
    /\ [](Len(chain) >= 1 /\ \A i \in 1..Len(chain) : chain[i].index = i - 1)
    /\ [][Len(chain') >= Len(chain) /\ SubSeq(chain', 1, Len(chain)) = chain]_vars

C10_Witness ==
    /\ Len(chain) = 3
    /\ ret.op = "is_chain_valid"
    /\ chain[2].nonce > 0
    /\ chain[3].index = 2

-----------------------------------------------------------------------------
(* Corruption.  The ledger's fields are plain data (and Blockchain derives *)
(* Deserialize), so a ledger can hold blocks that no operation built.  The *)
(* specification below lets the environment change one block of a ledger   *)
(* at rest; pc then names what was changed, and the corrupted               *)
(* ledger is only queried for its validity.  The ledgers corrupted are the *)
(* ones Blockchain::new or mine_pending_transactions has just returned:    *)
(* is_chain_valid() reads the chain alone, and only these two build it.    *)

FlipChar(ch) == IF ch = "0" THEN "1" ELSE "0"

\* The string s with its k-th character changed.
FlipAt(s, k) == SubSeq(s, 1, k - 1) \o FlipChar(SubSeq(s, k, k)) \o SubSeq(s, k + 1, Len(s))

FlipPositions == {1, HashLen}
CorruptAmounts == {Num(2), Num(5), PosInf}

\* The amount of record k of block i is overwritten by another value; the
\* block's stored hash is left as it is.
CorruptAmount(i, k, amount) ==
    /\ amount # chain[i].transactions[k].amount
    /\ chain' = [chain EXCEPT ![i].transactions[k].amount = amount]
    /\ pc' = "amount_corrupted"

\* One character of the stored hash of block i is changed.
CorruptHash(i, k) ==
    /\ chain' = [chain EXCEPT ![i].hash = FlipAt(@, k)]
    /\ pc' = "hash_corrupted"

\* The previous_hash of block i is changed and the block's hash recomputed.
CorruptLink(i) ==
    /\ LET b == [chain[i] EXCEPT !.previous_hash = FlipAt(@, 1)]
       IN  chain' = [chain EXCEPT ![i] = [b EXCEPT !.hash = CalculateHash(b)]]
    /\ pc' = "link_corrupted"

\* The nonce of block i is changed and the block's hash recomputed, with no
\* search for the prefix.
CorruptReseal(i) ==
    /\ LET b == [chain[i] EXCEPT !.nonce = @ + 1]
       IN  chain' = [chain EXCEPT ![i] = [b EXCEPT !.hash = CalculateHash(b)]]
    /\ pc' = "resealed"

CorruptIndexes == {1, 11}
CorruptTimestamps == {7, 17}

\* The index and the timestamp of block i are overwritten, one of them at
\* least by another value; the block's stored hash is left as it is.
CorruptHeader(i, index, timestamp) ==
    /\ <<index, timestamp>> # <<chain[i].index, chain[i].timestamp>>
    /\ chain' = [chain EXCEPT ![i].index = index, ![i].timestamp = timestamp]
    /\ pc' = "header_corrupted"

Corrupt ==
    /\ pc = "idle"
    /\ ret.op \in {"new", "mine_pending_transactions"}
    /\ \E i \in 1..Len(chain) :
          \/ \E k \in 1..Len(chain[i].transactions), amount \in CorruptAmounts :
                CorruptAmount(i, k, amount)
          \/ \E k \in FlipPositions : CorruptHash(i, k)
          \/ CorruptLink(i)
          \/ CorruptReseal(i)
          \/ /\ i >= 2
             /\ \E index \in CorruptIndexes, timestamp \in CorruptTimestamps :
                   CorruptHeader(i, index, timestamp)
    /\ ret' = Returned("none")
    /\ UNCHANGED <<pending_transactions, difficulty, mining_reward, block>>

NextTamper == Next \/ Corrupt

\* Neither the difficulty nor the reward is read by is_chain_valid(): the
\* ledgers corrupted are built with one reward, and with a difficulty that
\* makes mine_block search (or, out of range, panic).
InitTamper ==
    /\ Init
    /\ difficulty \in {2, HashLen + 1}
    /\ mining_reward = Num(3)

SpecTamper == InitTamper /\ [][NextTamper]_vars

\* C5 as stated (tamper detection): once the amount of a record of a block of
\* the chain has been changed to another value and the block's hash left
\* alone, is_chain_valid() is false.
C5_AmountTamperDetected ==
    pc = "amount_corrupted" =>
        /\ ~IsChainValid(chain)
        /\ ret.op = "is_chain_valid" => ~ret.valid

\* Some block's stored hash is not the hash of its fields, or some block's
\* previous_hash is not the hash stored before it.
BrokenAnywhere(c) ==
    \/ \E i \in 1..Len(c) : c[i].hash # CalculateHash(c[i])
    \/ \E i \in 2..Len(c) : c[i].previous_hash # c[i - 1].hash

\* The same, with the stored hash of the genesis block not looked at.
BrokenAfterGenesis(c) ==
    \E i \in 2..Len(c) :
        c[i].hash # CalculateHash(c[i]) \/ c[i].previous_hash # c[i - 1].hash

\* C6 as stated (structural breaks): is_chain_valid() is false of every ledger
\* with a block whose stored hash is stale or with a broken link; so it is
\* after one character of any block's stored hash was changed.
C6_EveryBreakReported ==
    /\ BrokenAnywhere(chain) => ~IsChainValid(chain)
    /\ pc = "hash_corrupted" => ~IsChainValid(chain)
    /\ (ret.op = "is_chain_valid" /\ BrokenAnywhere(chain)) => ~ret.valid

\* C6 amended: is_chain_valid() is false of every ledger with a block after
\* genesis whose stored hash is stale, or with a broken link; so it is after
\* one character of a block's stored hash was changed, unless that block is the
\* genesis block of a chain of one block.
C6_BreakAfterGenesisReported ==
    /\ BrokenAfterGenesis(chain) => ~IsChainValid(chain)
    /\ (pc = "hash_corrupted" /\ Len(chain) >= 2) => ~IsChainValid(chain)
    /\ (ret.op = "is_chain_valid" /\ BrokenAfterGenesis(chain)) => ~ret.valid

\* The genesis hash of a chain of three blocks was changed, and is_chain_valid
\* returned false.
C6_Witness ==
    /\ pc = "hash_corrupted"
    /\ ret.op = "is_chain_valid"
    /\ ~ret.valid
    /\ Len(chain) = 3
    /\ chain[1].hash # CalculateHash(chain[1])
    /\ chain[3].hash = CalculateHash(chain[3])

-----------------------------------------------------------------------------
(* The nonce search and the stored digests.                                *)

\* C11 as stated (over-large difficulty): with a difficulty above HashLen the
\* call of mine_block does not panic (it searches on and appends nothing).
C11_NoPanic == difficulty > HashLen => pc # "panicked"

\* The chain c without its records whose sender is their recipient.
RECURSIVE WithoutSelfTransfers(_)
WithoutSelfTransfers(c) ==
    IF c = <<>> THEN <<>>
    ELSE LET ts == Head(c).transactions
             keep == {k \in 1..Len(ts) : ts[k].sender # ts[k].recipient}
             F[k \in 0..Len(ts)] ==
                 IF k = 0 THEN <<>>
                 ELSE IF k \in keep THEN Append(F[k - 1], ts[k]) ELSE F[k - 1]
         IN  <<[Head(c) EXCEPT !.transactions = F[Len(ts)]]>>
                 \o WithoutSelfTransfers(Tail(c))

\* C13 as stated (self-transfers): the sealed records whose sender is their
\* recipient change no balance: every address has the balance it would have
\* without them.
C13_SelfTransfersNetZero ==
    \A a \in Addresses :
        GetBalance(chain, a) = GetBalance(WithoutSelfTransfers(chain), a)

\* C14 (no stale digest): every block of the chain, genesis included, and the
\* block under search at every boundary of the loop of mine_block, stores the
\* hash of its own fields.
C14_NoStaleDigest ==
    /\ \A i \in 1..Len(chain) : chain[i].hash = CalculateHash(chain[i])
    /\ block # <<>> => block[1].hash = CalculateHash(block[1])

\* The search is at its third nonce at least, with a chain of two blocks.
C14_Witness ==
    /\ pc = "mine_block"
    /\ block[1].nonce >= 2
    /\ Len(chain) = 2
    /\ Len(block[1].transactions) > 1

\* C17 (difficulty 0): with difficulty 0 the body of the loop never runs: the
\* block under search and every block appended have nonce 0, and the hash of
\* an appended block is the one its construction computed.
C17_NoSearchAtZero ==
    difficulty = 0 =>
        /\ block # <<>> => block[1].nonce = 0
        /\ \A i \in Mined :
              /\ chain[i].nonce = 0
              /\ chain[i].hash =
                     BlockNew(chain[i].index, chain[i].transactions,
                              chain[i].previous_hash, chain[i].timestamp).hash

C17_Witness ==
    /\ difficulty = 0
    /\ Len(chain) = 3
    /\ pc = "idle"
    /\ Len(chain[3].transactions) = 3
    /\ chain[3].nonce = 0
    /\ ~AllZero(chain[3].hash, 1)

-----------------------------------------------------------------------------
(* The contents of a sealed block, the frame of the operations, and the    *)
(* end of the search.                                                      *)

\* C15 (contents of the sealed block): the block a call of
\* mine_pending_transactions builds has the chain length before the call as
\* its index, the hash of the tail as its previous_hash, and as its records
\* the pending records of the call in their order followed by one reward
\* record from the sentinel to the miner for mining_reward; the search changes
\* none of these, the block appended is that block, and the pending list is
\* empty after the call.
C15_SealedContents ==
    [][/\ (pc = "idle" /\ pc' = "mine_block") =>
              LET b == block'[1]
                  n == Len(pending_transactions)
              IN  /\ b.index = Len(chain)
                  /\ b.previous_hash = chain[Len(chain)].hash
                  /\ Len(b.transactions) = n + 1
                  /\ SubSeq(b.transactions, 1, n) = pending_transactions
                  /\ b.transactions[n + 1].sender = Sentinel
                  /\ b.transactions[n + 1].amount = mining_reward
                  /\ \A m \in Miners :
                        MinePendingTransactions(m) =>
                            b.transactions[n + 1].recipient = m
       /\ (pc = "mine_block" /\ pc' = "mine_block") =>
              /\ block'[1].index = block[1].index
              /\ block'[1].previous_hash = block[1].previous_hash
              /\ block'[1].transactions = block[1].transactions
       /\ (pc = "mine_block" /\ pc' = "idle") =>
              /\ chain' = Append(chain, block[1])
              /\ pending_transactions' = <<>>]_vars

C15_Witness ==
    /\ pc = "idle"
    /\ ret.op = "mine_pending_transactions"
    /\ Len(chain) = 3
    /\ Len(chain[3].transactions) = 3
    /\ chain[3].transactions[1] # chain[3].transactions[2]
    /\ chain[3].transactions[3].recipient = "a"
    /\ chain[3].nonce > 0
    /\ pending_transactions = <<>>

\* C18 (frame): no step changes difficulty or mining_reward; add_transaction
\* appends one record, of the sender, recipient and amount it was given, at
\* the end of the pending list and leaves the chain unchanged; get_balance and
\* is_chain_valid leave chain and pending list unchanged.
C18_Frame ==
    [][/\ difficulty' = difficulty
       /\ mining_reward' = mining_reward
       /\ (pc = "idle" /\ pc' = "idle" /\ ret'.op = "add_transaction") =>
              LET n == Len(pending_transactions)
              IN  /\ chain' = chain
                  /\ Len(pending_transactions') = n + 1
                  /\ SubSeq(pending_transactions', 1, n) = pending_transactions
                  /\ \A tx \in TxInputs :
                        AddTransaction(tx[1], tx[2], tx[3]) =>
                            /\ pending_transactions'[n + 1].sender = tx[1]
                            /\ pending_transactions'[n + 1].recipient = tx[2]
                            /\ pending_transactions'[n + 1].amount = tx[3]
       /\ (pc = "idle" /\ pc' = "idle"
               /\ ret'.op \in {"get_balance", "is_chain_valid"}) =>
              /\ chain' = chain
              /\ pending_transactions' = pending_transactions]_vars

C18_Witness ==
    /\ ret.op = "add_transaction"
    /\ Len(chain) = 2
    /\ Len(pending_transactions) = 2
    /\ pending_transactions[1].recipient = "b"
    /\ pending_transactions[2].recipient = Sentinel

\* The thread that runs mine_block keeps running: a step of the search that
\* stays possible is taken.
\* The queries change nothing of the ledger and do not run during a search, so
\* the search is followed in the runs of the operations that write.
SealInputs == { <<"a", "b", Num(2)>>, <<"a", "a", NaN>> }

SubmitSeal == \E tx \in SealInputs : AddTransaction(tx[1], tx[2], tx[3])

MineSeal == MinePendingTransactions("a")

NextSeal ==
    SubmitSeal \/ MineSeal \/ MineBlockPanic \/ MineBlockLoop \/ MineBlockReturn

SpecSeal ==
    /\ Init
    /\ [][NextSeal]_vars
    /\ WF_vars(MineBlockLoop)
    /\ WF_vars(MineBlockReturn)

\* The nonces below that of block b do not give a hash with the prefix.
NoSmallerNonce(b) ==
    \A n \in 0..(b.nonce - 1) :
        ~AllZero(CalculateHash([b EXCEPT !.nonce = n]), difficulty)

\* C19 (least nonce): with a difficulty within the hash length, a search
\* begun comes to its end, and the nonce of the block under search and of
\* every block appended has no smaller nonce that gives the prefix.
C19_TerminatesWithLeastNonce ==
    /\ [](/\ \A i \in Mined : NoSmallerNonce(chain[i])
          /\ (block # <<>> /\ SliceInRange(difficulty)) =>
                 NoSmallerNonce(block[1]))
    /\ ((pc = "mine_block" /\ SliceInRange(difficulty)) ~> pc = "idle")

C19_Witness ==
    /\ pc = "idle"
    /\ difficulty = 2
    /\ Len(chain) = 3
    /\ chain[2].nonce > 1
    /\ chain[3].nonce > 1

-----------------------------------------------------------------------------
(* The scenario of two sealings by one miner with two transfers between.   *)

ScenarioMiner == "m1"

ScenarioAddresses == {ScenarioMiner, "a", "b"}

ScenarioDifficulties == {0, 1, 2, 3}

ScenarioReward == Num(100)

InitScenario ==
    /\ difficulty \in ScenarioDifficulties
    /\ mining_reward = ScenarioReward
    /\ \E now \in Times : chain = <<GenesisBlock(now)>>
    /\ pending_transactions = <<>>
    /\ pc = "idle"
    /\ block = <<>>
    /\ ret = Returned("new")

ScenarioSeal1 ==
    /\ Len(chain) = 1
    /\ pending_transactions = <<>>
    /\ MinePendingTransactions(ScenarioMiner)

ScenarioSubmit1 ==
    /\ Len(chain) = 2
    /\ pending_transactions = <<>>
    /\ AddTransaction(ScenarioMiner, "a", Num(40))

ScenarioSubmit2 ==
    /\ Len(chain) = 2
    /\ Len(pending_transactions) = 1
    /\ AddTransaction("a", "b", Num(10))

ScenarioSeal2 ==
    /\ Len(chain) = 2
    /\ Len(pending_transactions) = 2
    /\ MinePendingTransactions(ScenarioMiner)

ScenarioBalance == \E address \in ScenarioAddresses : CallGetBalance(address)

NextScenario ==
    \/ ScenarioSeal1
    \/ ScenarioSubmit1
    \/ ScenarioSubmit2
    \/ ScenarioSeal2
    \/ MineBlockLoop
    \/ MineBlockReturn
    \/ ScenarioBalance
    \/ CallIsChainValid

SpecScenario == InitScenario /\ [][NextScenario]_vars

\* The balances the scenario names: after the first sealing (two blocks) and
\* after the second (three blocks).
ScenarioExpected(len, address) ==
    IF len = 2
    THEN (IF address = ScenarioMiner THEN Num(100) ELSE Num(0))
    ELSE (IF address = ScenarioMiner THEN Num(160)
          ELSE IF address = "a" THEN Num(30) ELSE Num(10))

\* C12 (scenario): from Blockchain::new(2, 100), the first sealing for m1
\* returns with a chain of 2 blocks and the second, after the transfers
\* m1 -> a of 40 and a -> b of 10, with a chain of 3 blocks; a call of
\* get_balance after the first sealing gives m1 100, and after the second it
\* gives m1 160, a 30 and b 10.
C12_Scenario ==
    /\ (pc = "idle" /\ ret.op = "mine_pending_transactions") =>
           /\ Len(chain) = (IF Submitted = 0 THEN 2 ELSE 3)
           /\ \A address \in ScenarioAddresses :
                 GetBalance(chain, address)
                     = ScenarioExpected(Len(chain), address)
    /\ (pc = "idle" /\ ret.op = "get_balance" /\ Len(chain) >= 2) =>
           ret.balance = ScenarioExpected(Len(chain), ret.address)

C12_Witness ==
    /\ difficulty = 2
    /\ pc = "idle"
    /\ Len(chain) = 3
    /\ ret.op = "get_balance"
    /\ ret.address = "a"
    /\ ret.balance = Num(30)
    /\ GetBalance(chain, ScenarioMiner) = Num(160)
    /\ GetBalance(chain, "b") = Num(10)

-----------------------------------------------------------------------------
(* What is_chain_valid() reads, and what the hashed text tells apart.      *)

\* C16 (validity): is_chain_valid() is true exactly of the ledgers where every
\* block after genesis stores the hash of its fields and the hash stored
\* before it; no prefix of zeros is asked of any block, and the stored hash of
\* the genesis block is read only as the link of the block after it.
C16_ValidIffLinked ==
    /\ IsChainValid(chain) <=> ~BrokenAfterGenesis(chain)
    /\ ret.op = "is_chain_valid" => (ret.valid <=> ~BrokenAfterGenesis(chain))

\* is_chain_valid() returned true of a ledger of difficulty 2 where neither
\* the genesis block nor the last block, sealed again with no search, has a
\* hash with the prefix.
C16_Witness ==
    /\ pc = "resealed"
    /\ difficulty = 2
    /\ ret.op = "is_chain_valid"
    /\ ret.valid
    /\ Len(chain) = 3
    /\ ~AllZero(chain[1].hash, difficulty)
    /\ ~AllZero(chain[3].hash, difficulty)

\* C20 as stated (unambiguous hashed text): once the index and the timestamp
\* of a block after genesis have been overwritten, one of them at least by
\* another value, and the block's hash left alone, the text hashed is another
\* one and is_chain_valid() is false.
C20_HeaderTamperDetected ==
    pc = "header_corrupted" =>
        /\ \E i \in 2..Len(chain) : chain[i].hash # CalculateHash(chain[i])
        /\ ~IsChainValid(chain)
        /\ ret.op = "is_chain_valid" => ~ret.valid

=============================================================================
